---- MODULE Spec2Model ----
(***************************************************************************)
(* TinyStr4 / TinyStr8 / TinyStr16 of src/src/tinystr.rs: short ASCII      *)
(* strings packed into one u32 / u64 / u128.                               *)
(*                                                                         *)
(* A machine word ($ut) is modelled as the sequence of its bytes, least    *)
(* significant byte first (w[1] is bits 0..7), so that every width keeps   *)
(* its exact value: all arithmetic is modulo 2^(8 * Len(w)).               *)
(* Memory holding a word is the sequence of its bytes in address order;    *)
(* which of the two orders coincide depends on the target's endianness.    *)
(***************************************************************************)
EXTENDS Integers, Sequences, FiniteSets

VARIABLES
    target,   \* endianness of the build target: "little" or "big"
    cap,      \* size() of the type in use: 4, 8 or 16 bytes
    text,     \* the &str given to from_str, as code points
    text2,    \* a second &str (comparisons), as code points
    pc,       \* "input", "value" (a TinyStr is held), "error", "observed",
              \* "rebuilt" (a second TinyStr was made from the raw integer),
              \* "masked" (genmask has returned)
    err,      \* outcome of from_str: "none", "Ok" or the Error variant
    val,      \* the word of the TinyStr held (self.0.get()), <<>> if none
    val2,     \* the word of the second TinyStr, <<>> if none
    lastop,   \* the last case conversion applied
    obs,      \* what the last observer returned: [op, out]
    gbyte,    \* the u8 given to genmask
    gmask     \* what genmask returned, <<>> if it was not called

vars == <<target, cap, text, text2, pc, err, val, val2, lastop, obs, gbyte, gmask>>

(***************************************************************************)
(* Bounds of the model.                                                    *)
(***************************************************************************)
\* Input strings have up to MaxOver code points more than the capacity.
MaxOver == 1

(***************************************************************************)
(* Bytes and bitwise operations on one byte.                               *)
(***************************************************************************)
\* Bit i of byte a.
Bit(a, i) == (a \div (2 ^ i)) % 2

\* a & b, bit by bit.
AndBits(a, b) ==
    (Bit(a, 0) * Bit(b, 0)) + (2 * Bit(a, 1) * Bit(b, 1))
        + (4 * Bit(a, 2) * Bit(b, 2)) + (8 * Bit(a, 3) * Bit(b, 3))
        + (16 * Bit(a, 4) * Bit(b, 4)) + (32 * Bit(a, 5) * Bit(b, 5))
        + (64 * Bit(a, 6) * Bit(b, 6)) + (128 * Bit(a, 7) * Bit(b, 7))

\* a & b for all bytes a, b, computed once: AndTable[a + 1][b + 1].
AndTable ==
    SubSeq([a \in 1..256 |-> SubSeq([b \in 1..256 |-> AndBits(a - 1, b - 1)],
                                    1, 256)], 1, 256)

AndB(a, b) == AndTable[a + 1][b + 1]

OrB(a, b) == a + b - AndB(a, b)

NotB(a) == 255 - a

Pow2(n) == 2 ^ n

(***************************************************************************)
(* Word operations of $ut (u32, u64, u128): &, |, !, +, -, <<, >>.         *)
(***************************************************************************)
\* A word given byte by byte, as the sequence of its bytes.
Word(f) == SubSeq(f, 1, Len(f))

IsZero(w) == \A i \in 1..Len(w) : w[i] = 0

And(a, b) == Word([i \in 1..Len(a) |-> AndB(a[i], b[i])])

Or(a, b) == Word([i \in 1..Len(a) |-> OrB(a[i], b[i])])

Not(a) == Word([i \in 1..Len(a) |-> NotB(a[i])])

\* Bytes i.. of a + b, given the carry into byte i.
RECURSIVE AddFrom(_, _, _, _)
AddFrom(a, b, i, carry) ==
    IF i > Len(a) THEN <<>>
    ELSE <<(a[i] + b[i] + carry) % 256>>
            \o AddFrom(a, b, i + 1, (a[i] + b[i] + carry) \div 256)

\* Wrapping addition: the carry out of the top byte is dropped.
Add(a, b) == AddFrom(a, b, 1, 0)

\* Bytes i.. of a - b, given the borrow from byte i.
RECURSIVE SubFrom(_, _, _, _)
SubFrom(a, b, i, borrow) ==
    IF i > Len(a) THEN <<>>
    ELSE <<(a[i] - b[i] - borrow + 256) % 256>>
            \o SubFrom(a, b, i + 1, IF a[i] - b[i] - borrow < 0 THEN 1 ELSE 0)

\* Wrapping subtraction: the borrow out of the top byte is dropped.
Sub(a, b) == SubFrom(a, b, 1, 0)

ByteAt(w, i) == IF i >= 1 /\ i <= Len(w) THEN w[i] ELSE 0

\* w << k for 0 <= k < 8 * Len(w): bits shifted out at the top are lost.
Shl(w, k) ==
    LET q == k \div 8
        r == k % 8
    IN  Word([i \in 1..Len(w) |->
            ((ByteAt(w, i - q) * Pow2(r)) % 256)
                + (ByteAt(w, i - q - 1) \div Pow2(8 - r))])

\* w >> k for 0 <= k < 8 * Len(w): logical shift, zero filled.
Shr(w, k) ==
    LET q == k \div 8
        r == k % 8
    IN  Word([i \in 1..Len(w) |->
            (ByteAt(w, i + q) \div Pow2(r))
                + ((ByteAt(w, i + q + 1) * Pow2(8 - r)) % 256)])

\* `x.into()` from a narrower unsigned integer: zero extension to n bytes.
Widen(w, n) == Word([i \in 1..n |-> ByteAt(w, i)])

\* An integer literal 0 <= x < 256 typed as an n-byte word.
Lit(x, n) == Word([i \in 1..n |-> IF i = 1 THEN x ELSE 0])

swap_bytes(w) == Word([i \in 1..Len(w) |-> w[Len(w) + 1 - i]])

to_le(w) == IF target = "little" THEN w ELSE swap_bytes(w)

from_le(w) == IF target = "little" THEN w ELSE swap_bytes(w)

to_be(w) == IF target = "big" THEN w ELSE swap_bytes(w)

\* Number of zero bits above the highest set bit of byte b (8 for b = 0).
RECURSIVE LeadingZerosB(_)
LeadingZerosB(b) == IF b = 0 THEN 8 ELSE LeadingZerosB(b \div 2) - 1

RECURSIVE LeadingZerosFrom(_, _)
LeadingZerosFrom(w, i) ==
    IF i = 0 THEN 0
    ELSE IF w[i] = 0 THEN 8 + LeadingZerosFrom(w, i - 1)
    ELSE LeadingZerosB(w[i])

leading_zeros(w) == LeadingZerosFrom(w, Len(w))

\* Ord::cmp of two unsigned words: "Less", "Equal" or "Greater".
RECURSIVE CmpFrom(_, _, _)
CmpFrom(a, b, i) ==
    IF i = 0 THEN "Equal"
    ELSE IF a[i] < b[i] THEN "Less"
    ELSE IF a[i] > b[i] THEN "Greater"
    ELSE CmpFrom(a, b, i - 1)

UCmp(a, b) == CmpFrom(a, b, Len(a))

(***************************************************************************)
(* GenMask::genmask for u32, u64 and u128.                                 *)
(***************************************************************************)
genmask32(byte) ==
    LET mask == Widen(<<byte>>, 4)
    IN  Or(Or(Or(Shl(mask, 24), Shl(mask, 16)), Shl(mask, 8)), mask)

\* genmask for u64 shifting the 32-bit mask by half its width only
genmask64_shift16(byte) ==
    LET mask == Widen(genmask32(byte), 8)
    IN  Or(Shl(mask, 16), mask)

genmask64(byte) ==
    LET mask == Widen(genmask32(byte), 8)
    IN  Or(Shl(mask, 32), mask)

genmask128(byte) ==
    LET mask == Widen(genmask64(byte), 16)
    IN  Or(Shl(mask, 64), mask)

\* The masks of each width, computed once (they are consts in the source):
\* GenMaskTable[n][byte + 1].
GenMaskTable ==
    [n \in {4, 8, 16} |->
        SubSeq([b \in 1..256 |->
                   IF n = 4 THEN genmask32(b - 1)
                   ELSE IF n = 8 THEN genmask64(b - 1)
                   ELSE genmask128(b - 1)], 1, 256)]

\* $gm of the tinytype! instantiation for the type of n bytes.
gm(n, byte) == GenMaskTable[n][byte + 1]

(***************************************************************************)
(* Strings.  A &str is a sequence of code points; its bytes are its UTF-8  *)
(* encoding, and text.len() is the number of bytes.                        *)
(***************************************************************************)
Utf8Char(c) ==
    IF c < 128 THEN <<c>>
    ELSE IF c < 2048 THEN <<192 + (c \div 64), 128 + (c % 64)>>
    ELSE IF c < 65536 THEN
        <<224 + (c \div 4096), 128 + ((c \div 64) % 64), 128 + (c % 64)>>
    ELSE <<240 + (c \div 262144), 128 + ((c \div 4096) % 64),
           128 + ((c \div 64) % 64), 128 + (c % 64)>>

RECURSIVE Utf8(_)
Utf8(s) == IF s = <<>> THEN <<>> ELSE Utf8Char(Head(s)) \o Utf8(Tail(s))

\* The native word whose memory image is the byte sequence mem.
MemToWord(mem) == IF target = "little" THEN mem ELSE swap_bytes(mem)

\* The memory image of a native word.
WordToMem(w) == IF target = "little" THEN w ELSE swap_bytes(w)

\* `let mut word: $ut = 0; copy_nonoverlapping(text.as_ptr(), &mut word, len)`
CopyIntoWord(bytes, len, n) ==
    MemToWord(Word([i \in 1..n |-> IF i <= len THEN bytes[i] ELSE 0]))

(***************************************************************************)
(* FromStr.  A result is [err |-> "Ok", word |-> w] or an error with an    *)
(* empty word.                                                             *)
(***************************************************************************)
Fail(e) == [err |-> e, word |-> <<>>]

\* Mutant of make_4byte_str: the zero-byte test comes before the high-bit test.
make_4byte_str_nullfirst(bytes, len, mask0) ==
    LET mask == from_le(mask0)
        word == CopyIntoWord(bytes, len, 4)
    IN  IF ~IsZero(And(Sub(mask, word), mask)) THEN Fail("InvalidNull")
        ELSE IF ~IsZero(And(word, mask)) THEN Fail("NonAscii")
        ELSE [err |-> "Ok", word |-> word]

make_4byte_str(bytes, len, mask0) ==
    LET mask == from_le(mask0)
        word == CopyIntoWord(bytes, len, 4)
    IN  IF ~IsZero(And(word, mask)) THEN Fail("NonAscii")
        ELSE IF ~IsZero(And(Sub(mask, word), mask)) THEN Fail("InvalidNull")
        ELSE [err |-> "Ok", word |-> word]

\* impl FromStr for TinyStr4
from_str4(bytes) ==
    CASE Len(bytes) = 1 -> make_4byte_str(bytes, 1, <<128, 0, 0, 0>>)
      [] Len(bytes) = 2 -> make_4byte_str(bytes, 2, <<128, 128, 0, 0>>)
      [] Len(bytes) = 3 -> make_4byte_str(bytes, 3, <<128, 128, 128, 0>>)
      [] Len(bytes) = 4 -> make_4byte_str(bytes, 4, <<128, 128, 128, 128>>)
      [] OTHER -> Fail("InvalidSize")

\* Mutant of from_str_macro: the mask is shifted by the string's length
\* instead of by the unused length, so it covers size() - len lanes.
from_str_macro_shift(bytes, n) ==
    LET len == Len(bytes)
    IN  IF len < 1 \/ len > n THEN Fail("InvalidSize")
        ELSE
            LET word == CopyIntoWord(bytes, len, n)
                mask == from_le(Shr(gm(n, 128), 8 * len))
            IN  IF ~IsZero(And(word, mask)) THEN Fail("NonAscii")
                ELSE IF ~IsZero(And(Sub(mask, word), mask))
                     THEN Fail("InvalidNull")
                ELSE [err |-> "Ok", word |-> word]

\* Mutant of from_str_macro: the size test refuses a string of exactly
\* size() bytes.
from_str_macro_size(bytes, n) ==
    LET len == Len(bytes)
    IN  IF len < 1 \/ len >= n THEN Fail("InvalidSize")
        ELSE
            LET word == CopyIntoWord(bytes, len, n)
                mask == from_le(Shr(gm(n, 128), 8 * (n - len)))
            IN  IF ~IsZero(And(word, mask)) THEN Fail("NonAscii")
                ELSE IF ~IsZero(And(Sub(mask, word), mask))
                     THEN Fail("InvalidNull")
                ELSE [err |-> "Ok", word |-> word]

\* impl_from_str! for the type of n bytes (TinyStr8, TinyStr16)
from_str_macro(bytes, n) ==
    LET len == Len(bytes)
    IN  IF len < 1 \/ len > n THEN Fail("InvalidSize")
        ELSE
            LET word == CopyIntoWord(bytes, len, n)
                mask == from_le(Shr(gm(n, 128), 8 * (n - len)))
            IN  IF ~IsZero(And(word, mask)) THEN Fail("NonAscii")
                ELSE IF ~IsZero(And(Sub(mask, word), mask))
                     THEN Fail("InvalidNull")
                ELSE [err |-> "Ok", word |-> word]

from_str(s, n) ==
    IF n = 4 THEN from_str4(Utf8(s)) ELSE from_str_macro(Utf8(s), n)

(***************************************************************************)
(* The bit-parallel operations of tinytype!.                               *)
(***************************************************************************)
\* Mutant of to_ascii_uppercase: the upper bound of the range test is off by
\* one (0x04 for 0x05), so '{' counts as a lowercase letter.
to_ascii_uppercase_bound(word) ==
    LET n == Len(word)
        MASK_1F == gm(n, 31)
        MASK_05 == gm(n, 4)
        MASK_80 == gm(n, 128)
    IN  And(word,
            Not(Shr(And(And(Add(word, MASK_1F), Not(Add(word, MASK_05))),
                        MASK_80), 2)))

to_ascii_uppercase(word) ==
    LET n == Len(word)
        MASK_1F == gm(n, 31)
        MASK_05 == gm(n, 5)
        MASK_80 == gm(n, 128)
    IN  And(word,
            Not(Shr(And(And(Add(word, MASK_1F), Not(Add(word, MASK_05))),
                        MASK_80), 2)))

\* Mutant of to_ascii_lowercase: the 0x80 flags are not shifted down to 0x20.
to_ascii_lowercase_noshift(word) ==
    LET n == Len(word)
    IN  Or(word,
           And(And(Add(word, gm(n, 63)), Not(Add(word, gm(n, 37)))),
               gm(n, 128)))

to_ascii_lowercase(word) ==
    LET n == Len(word)
    IN  Or(word,
           Shr(And(And(Add(word, gm(n, 63)), Not(Add(word, gm(n, 37)))),
                   gm(n, 128)), 2))

\* Mutant of to_ascii_titlecase: lane 0 gets the same range test as the other
\* lanes (the masks lack `& !0x20`).
to_ascii_titlecase_lane0(self) ==
    LET n == Len(self)
        MASK_1F == gm(n, 63)
        MASK_05 == gm(n, 37)
        MASK_80 == gm(n, 128)
        word == to_le(self)
        mask == Shr(And(And(Add(word, MASK_1F), Not(Add(word, MASK_05))),
                        MASK_80), 2)
        result == And(Or(word, mask), Not(And(Lit(32, n), mask)))
    IN  from_le(result)

to_ascii_titlecase(self) ==
    LET n == Len(self)
        MASK_1F == And(gm(n, 63), Not(Lit(32, n)))
        MASK_05 == And(gm(n, 37), Not(Lit(32, n)))
        MASK_80 == gm(n, 128)
        word == to_le(self)
        mask == Shr(And(And(Add(word, MASK_1F), Not(Add(word, MASK_05))),
                        MASK_80), 2)
        result == And(Or(word, mask), Not(And(Lit(32, n), mask)))
    IN  from_le(result)

is_ascii_alphanumeric(word) ==
    LET n == Len(word)
        MASK_7F == gm(n, 127)
        MASK_80 == gm(n, 128)
        MASK_20 == gm(n, 32)
        MASK_1F == gm(n, 31)
        MASK_05 == gm(n, 5)
        mask == And(Add(word, MASK_7F), MASK_80)
        lower == Or(word, MASK_20)
    IN  IsZero(And(Or(Not(Add(lower, MASK_1F)), Add(lower, MASK_05)), mask))

\* Bytes a reused stack slot is taken to hold: 0x00 or 'U' in every byte.
Clobber == {0, 85}

\* The length Deref::deref computes for the slice.
deref_len(self) ==
    LET word == to_le(self)
    IN  Len(self) - (leading_zeros(word) \div 8)

\* What a read through the pointer handed to from_raw_parts can find.  The
\* pointer is to the temporary holding self.0.get(), which is dead once the
\* `let slice` statement ends: the slot still holds the word, or it has been
\* reused and holds other bytes.
DerefMemory(self) ==
    {WordToMem(self)} \cup {Word([i \in 1..Len(self) |-> g]) : g \in Clobber}

\* Mutant of new_unchecked: the integer is wrapped as it is, without
\* from_le().
new_unchecked_native(raw) == raw

\* $ty::new_unchecked(text: $ut)
new_unchecked(raw) == from_le(raw)

\* impl From<$ty> for $ut
into_raw(self) == to_le(self)

\* Mutant of cmp: the native words are compared, without to_be().
cmp_native(self, other) == UCmp(self, other)

\* Ord::cmp
cmp(self, other) == UCmp(to_be(self), to_be(other))

(***************************************************************************)
(* The state machine: a caller parses a string, then converts and          *)
(* observes the value.                                                     *)
(***************************************************************************)
Targets == {"little", "big"}

Caps == {4, 8, 16}

\* NUL, 0x01, '0', '9', '@', 'A', 'Z', '[', '`', 'a', 'z', '{', DEL, U+0080
\* and U+4000.
Alphabet ==
    {0, 1, 48, 57, 64, 65, 90, 91, 96, 97, 122, 123, 127, 128, 16384}

\* The string of n code points a, b, a, b, ...
Alternate(a, b, n) == Word([i \in 1..n |-> IF i % 2 = 1 THEN a ELSE b])

Texts(n) ==
    {Alternate(a, b, k) : a \in Alphabet, b \in Alphabet, k \in 0..(n + MaxOver)}

NoObs == [op |-> "none", out |-> <<>>]

Init ==
    /\ target \in Targets
    /\ cap \in Caps
    /\ text \in Texts(cap)
    /\ text2 = <<>>
    /\ pc = "input"
    /\ err = "none"
    /\ val = <<>>
    /\ val2 = <<>>
    /\ lastop = "none"
    /\ obs = NoObs
    /\ gbyte = 0
    /\ gmask = <<>>

\* text.parse::<TinyStrN>()
FromStr ==
    /\ pc = "input"
    /\ LET r == from_str(text, cap)
       IN  /\ err' = r.err
           /\ val' = r.word
           /\ pc' = IF r.err = "Ok" THEN "value" ELSE "error"
    /\ UNCHANGED <<target, cap, text, text2, val2, lastop, obs, gbyte, gmask>>

Convert(op, result) ==
    /\ pc = "value"
    /\ val' = result
    /\ lastop' = op
    /\ UNCHANGED <<target, cap, text, text2, pc, err, val2, obs, gbyte, gmask>>

ToAsciiUppercase == Convert("upper", to_ascii_uppercase(val))

ToAsciiLowercase == Convert("lower", to_ascii_lowercase(val))

ToAsciiTitlecase == Convert("title", to_ascii_titlecase(val))

Observe(op, out) ==
    /\ pc = "value"
    /\ pc' = "observed"
    /\ obs' = [op |-> op, out |-> out]
    /\ UNCHANGED <<target, cap, text, text2, err, val, val2, lastop, gbyte, gmask>>

\* s.deref() / s.as_str()
Deref ==
    \E mem \in DerefMemory(val) :
        Observe("deref", SubSeq(mem, 1, deref_len(val)))

IsAsciiAlphanumeric == Observe("alnum", is_ascii_alphanumeric(val))

Next ==
    \/ FromStr
    \/ ToAsciiUppercase
    \/ ToAsciiLowercase
    \/ ToAsciiTitlecase
    \/ Deref
    \/ IsAsciiAlphanumeric

Spec == Init /\ [][Next]_vars

(***************************************************************************)
(* Two values of one type: a caller parses two strings, then compares.     *)
(***************************************************************************)
\* 0x01, 'a' and DEL.
PairAlphabet == {1, 97, 127}

\* s itself, its prefixes, s with one code point replaced, s extended by one,
\* and the alternating strings of the length of s.
Variants(s) ==
    {SubSeq(s, 1, k) : k \in 0..Len(s)}
        \cup {[s EXCEPT ![p] = c] : p \in 1..Len(s), c \in PairAlphabet}
        \cup {Append(s, c) : c \in PairAlphabet}
        \cup {Alternate(c, d, Len(s)) : c \in PairAlphabet, d \in PairAlphabet}

PairTexts(n) ==
    {Alternate(a, b, k) :
        a \in PairAlphabet, b \in PairAlphabet, k \in 0..(n + MaxOver)}

InitPair ==
    /\ target \in Targets
    /\ cap \in Caps
    /\ text \in PairTexts(cap)
    /\ text2 \in Variants(text)
    /\ pc = "input"
    /\ err = "none"
    /\ val = <<>>
    /\ val2 = <<>>
    /\ lastop = "none"
    /\ obs = NoObs
    /\ gbyte = 0
    /\ gmask = <<>>

\* let s: TinyStrN = text.parse().unwrap(); let t: TinyStrN = text2.parse().unwrap();
FromStrPair ==
    /\ pc = "input"
    /\ LET r == from_str(text, cap)
           r2 == from_str(text2, cap)
       IN  /\ err' = IF r.err = "Ok" THEN r2.err ELSE r.err
           /\ val' = r.word
           /\ val2' = r2.word
           /\ pc' = IF r.err = "Ok" /\ r2.err = "Ok" THEN "value" ELSE "error"
    /\ UNCHANGED <<target, cap, text, text2, lastop, obs, gbyte, gmask>>

\* s.cmp(&t)
Cmp == Observe("cmp", cmp(val, val2))

\* s == t, the derived PartialEq of TinyStr<NZT>
Eq == Observe("eq", val = val2)

\* s == text2, PartialEq<&str>::eq: self.deref() == *other
EqStr ==
    \E mem \in DerefMemory(val) :
        Observe("eq_str", SubSeq(mem, 1, deref_len(val)) = Utf8(text2))

NextPair ==
    \/ FromStrPair
    \/ Cmp
    \/ Eq
    \/ EqStr

SpecPair == InitPair /\ [][NextPair]_vars

(***************************************************************************)
(* The mask generator on its own: a caller picks a width and a byte and    *)
(* calls genmask.  cap is the width in bytes of the integer type.          *)
(***************************************************************************)
Bytes == 0..255

InitMask ==
    /\ target \in Targets
    /\ cap \in Caps
    /\ text = <<>>
    /\ text2 = <<>>
    /\ pc = "input"
    /\ err = "none"
    /\ val = <<>>
    /\ val2 = <<>>
    /\ lastop = "none"
    /\ obs = NoObs
    /\ gbyte \in Bytes
    /\ gmask = <<>>

GenMask(n, result) ==
    /\ pc = "input"
    /\ cap = n
    /\ gmask' = result
    /\ pc' = "masked"
    /\ UNCHANGED <<target, cap, text, text2, err, val, val2, lastop, obs, gbyte>>

\* u32::genmask(byte)
GenMask32 == GenMask(4, genmask32(gbyte))

\* u64::genmask(byte)
GenMask64 == GenMask(8, genmask64(gbyte))

\* u128::genmask(byte)
GenMask128 == GenMask(16, genmask128(gbyte))

NextMask ==
    \/ GenMask32
    \/ GenMask64
    \/ GenMask128

SpecMask == InitMask /\ [][NextMask]_vars

(***************************************************************************)
(* The raw integer: a caller parses a string, converts it, takes the       *)
(* integer out of the value and wraps it again.                            *)
(***************************************************************************)
\* let uval: $ut = reference.into();
Into == Observe("into", into_raw(val))

\* let s = unsafe { $ty::new_unchecked(uval) };
NewUnchecked ==
    /\ pc = "observed"
    /\ obs.op = "into"
    /\ val2' = new_unchecked(obs.out)
    /\ pc' = "rebuilt"
    /\ UNCHANGED <<target, cap, text, text2, err, val, lastop, obs, gbyte, gmask>>

NextRaw ==
    \/ FromStr
    \/ ToAsciiUppercase
    \/ ToAsciiLowercase
    \/ ToAsciiTitlecase
    \/ Into
    \/ NewUnchecked

SpecRaw == Init /\ [][NextRaw]_vars

(***************************************************************************)
(* Reference notions the properties are stated with.                       *)
(***************************************************************************)
ByteLen(s) == Len(Utf8(s))

HasNul(s) == \E i \in 1..Len(s) : s[i] = 0

HasNonAscii(s) == \E i \in 1..Len(s) : s[i] >= 128

\* Every code point is in 0x01..0x7F.
PlainAscii(s) == \A i \in 1..Len(s) : s[i] >= 1 /\ s[i] <= 127

ValidText(s, n) == Len(s) >= 1 /\ Len(s) <= n /\ PlainAscii(s)

\* Lane i of a value is byte i - 1 of the string: the bytes in address order.
Lanes(w) == WordToMem(w)

IsDigit(c) == c >= 48 /\ c <= 57

IsUpper(c) == c >= 65 /\ c <= 90

IsLower(c) == c >= 97 /\ c <= 122

UpperOf(c) == IF IsLower(c) THEN c - 32 ELSE c

LowerOf(c) == IF IsUpper(c) THEN c + 32 ELSE c

\* Byte-wise lexicographic comparison of two byte strings.
RECURSIVE LexCmp(_, _)
LexCmp(s, t) ==
    IF s = <<>> /\ t = <<>> THEN "Equal"
    ELSE IF s = <<>> THEN "Less"
    ELSE IF t = <<>> THEN "Greater"
    ELSE IF Head(s) < Head(t) THEN "Less"
    ELSE IF Head(s) > Head(t) THEN "Greater"
    ELSE LexCmp(Tail(s), Tail(t))

Holding == pc \in {"value", "observed"}

(***************************************************************************)
(* C1.  Round trip: a string of 1..capacity bytes, all in 0x01..0x7F,      *)
(* parses, and deref of the parsed value yields exactly that string.       *)
(* Violated: the slice deref returns points at a dead temporary.           *)
(***************************************************************************)
C1_RoundTrip ==
    ValidText(text, cap) =>
        /\ pc # "input" => err = "Ok"
        /\ (pc = "observed" /\ obs.op = "deref" /\ lastop = "none")
               => obs.out = Utf8(text)

(***************************************************************************)
(* C2.  is_ascii_alphanumeric is true exactly when every character of the  *)
(* string is a digit or a letter.  Violated: digits are refused.           *)
(***************************************************************************)
C2_Alphanumeric ==
    (pc = "observed" /\ obs.op = "alnum") =>
        obs.out = (\A i \in 1..ByteLen(text) :
                      \/ IsDigit(Lanes(val)[i])
                      \/ IsUpper(Lanes(val)[i])
                      \/ IsLower(Lanes(val)[i]))

(***************************************************************************)
(* C3.  cmp of two parsed values is the byte-wise lexicographic comparison *)
(* of the two strings: a strict prefix is smaller, and the result is Equal *)
(* exactly when the strings are equal.                                     *)
(***************************************************************************)
C3_Ordering ==
    (pc = "observed" /\ obs.op = "cmp") =>
        /\ obs.out = LexCmp(Utf8(text), Utf8(text2))
        /\ (obs.out = "Equal") = (text = text2)

C3_Witness ==
    /\ pc = "observed" /\ obs.op = "cmp" /\ obs.out = "Less"
    /\ cap = 16 /\ target = "little"
    /\ Len(text) = 15 /\ Len(text2) = 16
    /\ text = SubSeq(text2, 1, 15)

(***************************************************************************)
(* C4.  Every value held, after the parse and after any sequence of case   *)
(* conversions, is a non-zero word whose first len lanes are in 0x01..0x7F *)
(* and whose other lanes are zero, len being the length of the string      *)
(* parsed.                                                                 *)
(***************************************************************************)
C4_TypeInvariant ==
    Holding =>
        /\ ~IsZero(val)
        /\ Len(val) = cap
        /\ \A i \in 1..cap :
              IF i <= ByteLen(text)
              THEN Lanes(val)[i] >= 1 /\ Lanes(val)[i] <= 127
              ELSE Lanes(val)[i] = 0

C4_Witness ==
    /\ pc = "value" /\ lastop = "lower"
    /\ cap = 4 /\ ByteLen(text) = 3
    /\ val # from_str(text, cap).word
    /\ to_ascii_titlecase(val) # val

(***************************************************************************)
(* C5 as stated.  A string holding a zero code point fails to parse with   *)
(* InvalidNull (never with NonAscii).  Violated: the size test and the     *)
(* high-bit test come first.                                               *)
(***************************************************************************)
C5_NullRejection ==
    (pc # "input" /\ HasNul(text)) => err = "InvalidNull"

(***************************************************************************)
(* C5 as amended.  A string of 1..capacity bytes holding a zero code point *)
(* and no code point >= 128 fails to parse with InvalidNull; with a code   *)
(* point >= 128 as well it fails with NonAscii, and with a byte length     *)
(* outside 1..capacity with InvalidSize.                                   *)
(***************************************************************************)
C5_NullRejectionInOrder ==
    (pc # "input" /\ HasNul(text)) =>
        err = IF ByteLen(text) < 1 \/ ByteLen(text) > cap THEN "InvalidSize"
              ELSE IF HasNonAscii(text) THEN "NonAscii"
              ELSE "InvalidNull"

C5_Witness ==
    /\ pc = "error" /\ err = "InvalidNull"
    /\ cap = 16 /\ Len(text) = 15
    /\ text[15] = 0 /\ text[14] # 0

(***************************************************************************)
(* C6 as stated.  A string holding a code point >= 128 fails to parse with *)
(* NonAscii.  Violated: a string of more than capacity bytes fails with    *)
(* InvalidSize.                                                            *)
(***************************************************************************)
C6_NonAsciiRejection ==
    (pc # "input" /\ HasNonAscii(text)) => err = "NonAscii"

(***************************************************************************)
(* C6 as amended.  A string of 1..capacity bytes holding a code point      *)
(* >= 128 fails to parse with NonAscii (also when it holds a zero code     *)
(* point); one of more than capacity bytes fails with InvalidSize.         *)
(***************************************************************************)
C6_NonAsciiRejectionInSize ==
    (pc # "input" /\ HasNonAscii(text)) =>
        err = IF ByteLen(text) > cap THEN "InvalidSize" ELSE "NonAscii"

C6_Witness ==
    /\ pc = "error" /\ err = "NonAscii"
    /\ cap = 4 /\ ByteLen(text) = 4
    /\ HasNul(text)

(***************************************************************************)
(* C7 as stated.  An input of 0 or of more than capacity bytes fails with  *)
(* InvalidSize, and an input of exactly capacity bytes parses.  Violated:  *)
(* an input of capacity bytes with a NUL or a non-ASCII byte fails.        *)
(***************************************************************************)
C7_SizeBoundary ==
    pc # "input" =>
        /\ (ByteLen(text) = 0 \/ ByteLen(text) > cap) => err = "InvalidSize"
        /\ ByteLen(text) = cap => err = "Ok"

(***************************************************************************)
(* C7 as amended.  An input of 0 or of more than capacity bytes fails with *)
(* InvalidSize whatever its bytes are; an input of exactly capacity bytes  *)
(* never fails with InvalidSize, and parses when its bytes are all in      *)
(* 0x01..0x7F.                                                             *)
(***************************************************************************)
C7_SizeBoundaryValid ==
    pc # "input" =>
        /\ (ByteLen(text) = 0 \/ ByteLen(text) > cap) => err = "InvalidSize"
        /\ ByteLen(text) = cap => err # "InvalidSize"
        /\ (ByteLen(text) = cap /\ PlainAscii(text)) => err = "Ok"

C7_Witness ==
    /\ pc = "value" /\ err = "Ok" /\ lastop = "none"
    /\ cap = 16 /\ ByteLen(text) = 16

(***************************************************************************)
(* C8.  to_ascii_uppercase turns every lane holding a-z into the matching  *)
(* upper-case letter and to_ascii_lowercase every lane holding A-Z into    *)
(* the matching lower-case letter; every other lane, the zero padding      *)
(* included, is unchanged, and so is the length of the string.             *)
(***************************************************************************)
C8_CaseConversion ==
    [][/\ ToAsciiUppercase =>
              /\ Lanes(val') = Word([i \in 1..cap |-> UpperOf(Lanes(val)[i])])
              /\ deref_len(val') = deref_len(val)
       /\ ToAsciiLowercase =>
              /\ Lanes(val') = Word([i \in 1..cap |-> LowerOf(Lanes(val)[i])])
              /\ deref_len(val') = deref_len(val)]_vars

\* "{a{a.." has been upper-cased: the letters changed, '{' and the padding
\* did not.
C8_Witness ==
    /\ pc = "value" /\ lastop = "upper"
    /\ cap = 16 /\ Len(text) = 15
    /\ text[1] = 123 /\ text[2] = 97
    /\ Lanes(val)[1] = 123 /\ Lanes(val)[2] = 65 /\ Lanes(val)[16] = 0

(***************************************************************************)
(* C9.  to_ascii_titlecase: lane 0 becomes the upper-case form of its      *)
(* letter and is unchanged when it holds no letter; every other lane       *)
(* becomes the lower-case form of its byte; the padding is unchanged.      *)
(***************************************************************************)
C9_Titlecase ==
    [][ToAsciiTitlecase =>
          Lanes(val') = Word([i \in 1..cap |->
                                 IF i = 1 THEN UpperOf(Lanes(val)[i])
                                 ELSE LowerOf(Lanes(val)[i])])]_vars

C9_Witness ==
    /\ pc = "value" /\ lastop = "title"
    /\ cap = 8 /\ Len(text) = 7 /\ target = "big"
    /\ text[1] = 97 /\ text[2] = 90
    /\ Lanes(val)[1] = 65 /\ Lanes(val)[2] = 122 /\ Lanes(val)[8] = 0

(***************************************************************************)
(* C10.  Two parsed values are equal exactly when the two strings are, and *)
(* a parsed value equals a plain string exactly when the string it was     *)
(* parsed from does.  Violated: the comparison with a plain string reads   *)
(* the text through deref (see C1).                                        *)
(***************************************************************************)
C10_Canonical ==
    pc = "observed" =>
        /\ obs.op = "eq" => obs.out = (text = text2)
        /\ obs.op = "eq_str" => obs.out = (text = text2)

(***************************************************************************)
(* C11.  Unchecked round trip: new_unchecked of the integer that From      *)
(* gives for a value v is v again, with the same bytes and the same        *)
(* length, and the integer taken out of the new value is the one put in.   *)
(***************************************************************************)
C11_UncheckedRoundTrip ==
    pc = "rebuilt" =>
        /\ val2 = val
        /\ into_raw(val2) = obs.out
        /\ deref_len(val2) = ByteLen(text)
        /\ lastop = "none" =>
              SubSeq(Lanes(val2), 1, deref_len(val2)) = Utf8(text)

C11_Witness ==
    /\ pc = "rebuilt" /\ lastop = "none"
    /\ target = "big" /\ cap = 8
    /\ text = <<97, 90, 97>>
    /\ obs.out = <<97, 90, 97, 0, 0, 0, 0, 0>>
    /\ val2 = <<0, 0, 0, 0, 0, 97, 90, 97>>

(***************************************************************************)
(* C12.  Case-fold idempotence: for every value s held,                    *)
(* upper(upper(s)) = upper(s) and lower(lower(s)) = lower(s); and when s   *)
(* is made only of letters, lower(upper(s)) = lower(s).                    *)
(***************************************************************************)
C12_Idempotence ==
    pc = "value" =>
        /\ to_ascii_uppercase(to_ascii_uppercase(val)) = to_ascii_uppercase(val)
        /\ to_ascii_lowercase(to_ascii_lowercase(val)) = to_ascii_lowercase(val)
        /\ (\A i \in 1..ByteLen(text) :
               IsUpper(Lanes(val)[i]) \/ IsLower(Lanes(val)[i]))
               => to_ascii_lowercase(to_ascii_uppercase(val))
                      = to_ascii_lowercase(val)

\* "aZaZ.." has been title-cased to "Azaz..": only letters, of both cases,
\* which upper-casing and lower-casing both change.
C12_Witness ==
    /\ pc = "value" /\ lastop = "title"
    /\ cap = 16 /\ text = Alternate(97, 90, 15)
    /\ Lanes(val)[1] = 65 /\ Lanes(val)[2] = 122
    /\ to_ascii_uppercase(val) # val
    /\ to_ascii_lowercase(val) # val
    /\ to_ascii_lowercase(to_ascii_uppercase(val)) # to_ascii_uppercase(val)

(***************************************************************************)
(* C13.  Mask generator: for every byte b and each width of 32, 64 and     *)
(* 128 bits, genmask(b) has b in every byte lane and nothing else; the     *)
(* 64-bit mask is the 32-bit mask stacked twice and the 128-bit mask is    *)
(* the 64-bit mask stacked twice, no bit lost or overlapping.              *)
(***************************************************************************)
C13_GenMask ==
    pc = "masked" =>
        /\ Len(gmask) = cap
        /\ \A i \in 1..cap : gmask[i] = gbyte
        /\ cap = 8 => gmask = genmask32(gbyte) \o genmask32(gbyte)
        /\ cap = 16 => gmask = genmask64(gbyte) \o genmask64(gbyte)

\* u128::genmask(0xf0), the case of test_genmask
C13_Witness ==
    /\ pc = "masked"
    /\ cap = 16
    /\ gbyte = 240
    /\ gmask = [i \in 1..16 |-> 240]

====
